---- MODULE Spec2Model ----
(***************************************************************************)
(* Admission control of the apiProxy cloud function: the allow-list and    *)
(* bypass short-circuits and the two-tier (per-IP, global) daily quota     *)
(* kept in Firestore and updated inside firestore.runTransaction.          *)
(*                                                                         *)
(* src/src/index.ts and src/index.js hold the same checkAndRecordUsage;    *)
(* line numbers below are those of src/src/index.ts.                       *)
(***************************************************************************)
EXTENDS Integers, Sequences, FiniteSets, TLC

(***************************************************************************)
(* Bounds of the model.                                                    *)
(***************************************************************************)
\* number of requests the function instance(s) serve, all possibly in flight
NumCalls == 2
\* attempts runTransaction makes before it rejects with a contention error
MaxAttempts == 2
\* longest X-Forwarded-For header, in characters
MaxHeaderLen == 3

(***************************************************************************)
(* Program constants.                                                      *)
(***************************************************************************)
IP_LIMIT == 100
GLOBAL_LIMIT == 1000

Calls == 1..NumCalls

(***************************************************************************)
(* Client identifiers are strings, modelled as sequences of characters.    *)
(***************************************************************************)
EmptyIp == << >>
IpA == <<"a">>
IpW == <<"w">>
IpSlash == <<"a", "/", "b">>
ClientIds == {EmptyIp, IpA, IpW, IpSlash}

\* the contents whitelist.json may have
WhitelistConfigs == {{IpW}, {IpW, EmptyIp}}

\* The wall clock runs over the UTC days since the epoch that DateTable
\* lists; new Date().toISOString().split("T")[0] for an instant of day d.
DateTable == <<"1970-01-01", "1970-01-02">>
Days == 0..(Len(DateTable) - 1)
LastDay == Len(DateTable) - 1
ISODate(d) == DateTable[d + 1]

\* (variant: the per-client key leaves the period out)
IpDocId_NoDate(ip, date) == ip \o <<"_">>

\* `${ipAddress}_${today}`
IpDocId(ip, date) == ip \o <<"_", date>>

\* number of non-empty "/"-separated segments of a path
RECURSIVE SegmentCount(_)
SegmentCount(s) ==
    IF s = << >> THEN 0
    ELSE IF Head(s) = "/" THEN SegmentCount(Tail(s))
    ELSE IF Len(s) = 1 \/ s[2] = "/" THEN 1 + SegmentCount(Tail(s))
    ELSE SegmentCount(Tail(s))

HasDoubleSlash(s) == \E i \in 1..(Len(s) - 1) : s[i] = "/" /\ s[i + 1] = "/"

\* collection("ip-usage").doc(id) returns a reference only when the id is a
\* non-empty path without "//" that, appended to the collection, names a
\* document (an even number of segments); otherwise it throws
DocRefOk(id) ==
    /\ id # << >>
    /\ ~HasDoubleSlash(id)
    /\ (1 + SegmentCount(id)) % 2 = 0

(***************************************************************************)
(* Documents of the store: a missing document, or {count: n}.              *)
(***************************************************************************)
NoDoc == [exists |-> FALSE, count |-> 0]
Doc(n) == [exists |-> TRUE, count |-> n]

IpDocIds == {IpDocId(ip, ISODate(d)) : ip \in {c \in ClientIds : DocRefOk(IpDocId(c, ISODate(0)))}, d \in Days}
GlobalDocIds == {ISODate(d) : d \in Days}

VARIABLES
    WHITELISTED_IPS,   \* whitelist.json, loaded at start
    ipLimit,           \* the per-client limit checkAndRecordUsage is built with
    globalLimit,       \* the global limit checkAndRecordUsage is built with
    bypassEnv,         \* process.env.BYPASS_RATE_LIMITING === "true"
    now,               \* UTC day of the wall clock
    ipUsage,           \* collection "ip-usage": doc id -> document
    globalUsage,       \* collection "global-usage": doc id -> document
    pc,                \* position of each request in apiProxy
    ipAddress,         \* its client identifier
    today,             \* the period string its admit call computed
    attempts,          \* attempts of its transaction so far
    ipDoc,             \* snapshot its transaction.get(ipDocRef) returned
    globalDoc,         \* snapshot its transaction.get(globalDocRef) returned
    verdict,           \* the "RATE LIMIT DEBUG END" line its admit call logged
    status,            \* HTTP status of its response, 0 while none is sent
    body,              \* the error text of its response, "" while none is sent
    store0,            \* history: the store as it was in the initial state
    history,           \* history: <<client, admitted>> of the requests served in turn
    reqIp,             \* req.ip of a request whose identity is resolved
    forwardedFor,      \* its req.get("X-Forwarded-For")
    resolved           \* the identifier index.ts and index.js hand to admit

vars == <<WHITELISTED_IPS, ipLimit, globalLimit, bypassEnv, now, ipUsage, globalUsage, pc, ipAddress,
          today, attempts, ipDoc, globalDoc, verdict, status, body, store0,
          history, reqIp, forwardedFor, resolved>>

config == <<WHITELISTED_IPS, ipLimit, globalLimit, bypassEnv>>
store == <<ipUsage, globalUsage>>
locals == <<ipAddress, today, attempts, ipDoc, globalDoc>>
resolver == <<reqIp, forwardedFor, resolved>>

\* a value that may be undefined (req.ip, a header), and a string
Absent == [present |-> FALSE, value |-> << >>]
Some(s) == [present |-> TRUE, value |-> s]

\* no identity resolved yet
NotResolved == [done |-> FALSE, ts |-> << >>, js |-> Absent]

(***************************************************************************)
(* Initial states: any configuration, the clock on day 0, no request yet,  *)
(* and a store left by earlier admits of day 0, empty or near a limit:     *)
(* InitCounts lists <<count of "a", count of "w", global count>>, the      *)
(* global count being their sum plus what other clients were admitted.     *)
(***************************************************************************)
InitCounts ==
    { <<0, 0, 0>>,
      <<IP_LIMIT - 1, 0, IP_LIMIT - 1>>,
      <<IP_LIMIT - 1, 0, GLOBAL_LIMIT - 1>>,
      <<0, IP_LIMIT, GLOBAL_LIMIT>> }

StoredDoc(n) == IF n = 0 THEN NoDoc ELSE Doc(n)

InitStore(a, w, g) ==
    /\ ipUsage = [k \in IpDocIds |->
                    IF k = IpDocId(IpA, ISODate(0)) THEN StoredDoc(a)
                    ELSE IF k = IpDocId(IpW, ISODate(0)) THEN StoredDoc(w)
                    ELSE NoDoc]
    /\ globalUsage = [k \in GlobalDocIds |->
                        IF k = ISODate(0) THEN StoredDoc(g) ELSE NoDoc]

\* no request has arrived yet
NoRequestYet ==
    /\ now = 0
    /\ store0 = store
    /\ pc = [r \in Calls |-> "idle"]
    /\ ipAddress = [r \in Calls |-> EmptyIp]
    /\ today = [r \in Calls |-> ISODate(0)]
    /\ attempts = [r \in Calls |-> 0]
    /\ ipDoc = [r \in Calls |-> NoDoc]
    /\ globalDoc = [r \in Calls |-> NoDoc]
    /\ verdict = [r \in Calls |-> "NONE"]
    /\ status = [r \in Calls |-> 0]
    /\ body = [r \in Calls |-> ""]
    /\ history = << >>

\* no identity is being resolved
NothingToResolve ==
    /\ reqIp = Absent
    /\ forwardedFor = Absent
    /\ resolved = NotResolved

InitCalls ==
    /\ WHITELISTED_IPS \in WhitelistConfigs
    /\ bypassEnv \in BOOLEAN
    /\ NoRequestYet
    /\ NothingToResolve

Init ==
    /\ ipLimit = IP_LIMIT
    /\ globalLimit = GLOBAL_LIMIT
    /\ \E c \in InitCounts : InitStore(c[1], c[2], c[3])
    /\ InitCalls

\* The same function built with small limits, on an empty store.
ScaledLimits == {<<1, 2>>, <<2, 3>>}

InitScaled ==
    /\ \E l \in ScaledLimits : ipLimit = l[1] /\ globalLimit = l[2]
    /\ InitStore(0, 0, 0)
    /\ InitCalls

\* The end-to-end scenario: limits 2 and 3, empty allow-list, bypass off,
\* an empty store, requests served one after the other in one period; the
\* clients A, B and C are "a", "w" and "".
ScenarioClients == {IpA, IpW, EmptyIp}
Scenario == <<IpA, IpA, IpA, IpW, EmptyIp>>

InitScenario ==
    /\ ipLimit = 2
    /\ globalLimit = 3
    /\ WHITELISTED_IPS = {}
    /\ bypassEnv = FALSE
    /\ InitStore(0, 0, 0)
    /\ NoRequestYet
    /\ NothingToResolve

(***************************************************************************)
(* The identity resolver of apiProxy, as a function of req.ip and of the   *)
(* X-Forwarded-For header, each undefined or a string of characters.       *)
(***************************************************************************)
HeaderChars == {"a", "b", " ", ","}
Strings(n) == UNION {[1..k -> HeaderChars] : k \in 0..n}
Headers == {Absent} \cup {Some(s) : s \in Strings(MaxHeaderLen)}
PeerAddresses == {Absent, Some(<< >>), Some(<<"p">>)}

\* a value taken as true by `if (v)` and by `v || ""`
Truthy(v) == v.present /\ v.value # << >>

\* s.split(",")[0]
RECURSIVE SplitFirst(_)
SplitFirst(s) ==
    IF s = << >> THEN << >>
    ELSE IF Head(s) = "," THEN << >>
    ELSE <<Head(s)>> \o SplitFirst(Tail(s))

RECURSIVE TrimStart(_)
TrimStart(s) ==
    IF s = << >> THEN << >>
    ELSE IF Head(s) = " " THEN TrimStart(Tail(s))
    ELSE s

RECURSIVE TrimEnd(_)
TrimEnd(s) ==
    IF s = << >> THEN << >>
    ELSE IF s[Len(s)] = " " THEN TrimEnd(SubSeq(s, 1, Len(s) - 1))
    ELSE s

\* (variant: the entry is used as it stands)
Trim_None(s) == s

\* s.trim()
Trim(s) == TrimEnd(TrimStart(s))

\* let ipAddress = req.ip; if (forwardedFor) ipAddress = first entry, trimmed
ForwardedOrPeer(ip, xff) ==
    IF Truthy(xff) THEN Some(Trim(SplitFirst(xff.value))) ELSE ip

\* index.ts calls checkAndRecordUsage(ipAddress || "")
ResolveTs(ip, xff) ==
    LET ipAddr == ForwardedOrPeer(ip, xff)
    IN  IF Truthy(ipAddr) THEN ipAddr.value ELSE << >>

\* index.js calls checkAndRecordUsage(ipAddress)
ResolveJs(ip, xff) == ForwardedOrPeer(ip, xff)

\* `${ipAddress}` in index.js: an undefined value reads "undefined"
ToStringJs(v) ==
    IF v.present THEN v.value ELSE <<"u", "n", "d", "e", "f", "i", "n", "e", "d">>

\* WHITELISTED_IPS.includes(ipAddress) in index.js: no string is undefined
IncludesJs(v) == v.present /\ v.value \in WHITELISTED_IPS

InitResolve ==
    /\ ipLimit = IP_LIMIT
    /\ globalLimit = GLOBAL_LIMIT
    /\ WHITELISTED_IPS \in WhitelistConfigs
    /\ bypassEnv \in BOOLEAN
    /\ InitStore(0, 0, 0)
    /\ NoRequestYet
    /\ reqIp \in PeerAddresses
    /\ forwardedFor \in Headers
    /\ resolved = NotResolved

(***************************************************************************)
(* checkAndRecordUsage, the part before the transaction.                   *)
(***************************************************************************)
\* (variant: the allow-list is never consulted)
IsWhitelisted_Never(ip) == FALSE

\* WHITELISTED_IPS.includes(ipAddress)
IsWhitelisted(ip) == ip \in WHITELISTED_IPS

\* (variant: a missing document counts as one use)
CountOf_MissingAsOne(doc) == IF doc.exists THEN doc.count ELSE 1

\* ipDoc.exists ? ipDoc.data().count : 0
CountOf(doc) == IF doc.exists THEN doc.count ELSE 0

NoWrites(res) ==
    [result |-> res, setIp |-> FALSE, setGlobal |-> FALSE,
     ipNew |-> NoDoc, globalNew |-> NoDoc]

BothWrites(ipCount, globalCount) ==
    [result |-> TRUE, setIp |-> TRUE, setGlobal |-> TRUE,
     ipNew |-> Doc(ipCount + 1), globalNew |-> Doc(globalCount + 1)]

\* (variant: the per-client limit is not checked)
TransactionBody_NoIpCheck(ipSnap, globalSnap) ==
    LET ipCount == IF ipSnap.exists THEN ipSnap.count ELSE 0
        globalCount == IF globalSnap.exists THEN globalSnap.count ELSE 0
    IN  IF globalCount >= globalLimit THEN NoWrites(FALSE)
        ELSE BothWrites(ipCount, globalCount)

\* (variant: the limits are compared with > instead of >=)
TransactionBody_OffByOne(ipSnap, globalSnap) ==
    LET ipCount == IF ipSnap.exists THEN ipSnap.count ELSE 0
        globalCount == IF globalSnap.exists THEN globalSnap.count ELSE 0
    IN  IF ipCount > ipLimit THEN NoWrites(FALSE)
        ELSE IF globalCount > globalLimit THEN NoWrites(FALSE)
        ELSE BothWrites(ipCount, globalCount)

\* (variant: the global document is not written)
TransactionBody_IpOnly(ipSnap, globalSnap) ==
    LET ipCount == IF ipSnap.exists THEN ipSnap.count ELSE 0
        globalCount == IF globalSnap.exists THEN globalSnap.count ELSE 0
    IN  IF ipCount >= ipLimit THEN NoWrites(FALSE)
        ELSE IF globalCount >= globalLimit THEN NoWrites(FALSE)
        ELSE [BothWrites(ipCount, globalCount) EXCEPT !.setGlobal = FALSE]

\* (variant: the per-IP document is written before the global limit is
\* checked)
TransactionBody_WriteBeforeGlobalCheck(ipSnap, globalSnap) ==
    LET ipCount == IF ipSnap.exists THEN ipSnap.count ELSE 0
        globalCount == IF globalSnap.exists THEN globalSnap.count ELSE 0
    IN  IF ipCount >= ipLimit THEN NoWrites(FALSE)
        ELSE IF globalCount >= globalLimit
        THEN [NoWrites(FALSE) EXCEPT !.setIp = TRUE, !.ipNew = Doc(ipCount + 1)]
        ELSE BothWrites(ipCount, globalCount)

\* (variant: the global limit is not checked)
TransactionBody_NoGlobalCheck(ipSnap, globalSnap) ==
    LET ipCount == IF ipSnap.exists THEN ipSnap.count ELSE 0
        globalCount == IF globalSnap.exists THEN globalSnap.count ELSE 0
    IN  IF ipCount >= ipLimit THEN NoWrites(FALSE)
        ELSE BothWrites(ipCount, globalCount)

\* The update function handed to runTransaction, applied to the two
\* snapshots: the value it returns and the writes it buffers.
TransactionBody(ipSnap, globalSnap) ==
    LET ipCount == CountOf(ipSnap)
        globalCount == CountOf(globalSnap)
    IN  IF ipCount >= ipLimit THEN NoWrites(FALSE)
        ELSE IF globalCount >= globalLimit THEN NoWrites(FALSE)
        ELSE BothWrites(ipCount, globalCount)

\* (variant: the handler does not return after sending 429)
Respond_NoReturn(r, allowed, line) ==
    /\ verdict' = [verdict EXCEPT ![r] = line]
    /\ pc' = [pc EXCEPT ![r] = "dispatch"]
    /\ IF allowed
       THEN UNCHANGED <<status, body>>
       ELSE /\ status' = [status EXCEPT ![r] = 429]
            /\ body' = [body EXCEPT ![r] = "Rate limit exceeded."]

\* the request handler's continuation once admit has returned `allowed`
Respond(r, allowed, line) ==
    /\ verdict' = [verdict EXCEPT ![r] = line]
    /\ IF allowed
       THEN pc' = [pc EXCEPT ![r] = "dispatch"] /\ UNCHANGED <<status, body>>
       ELSE /\ pc' = [pc EXCEPT ![r] = "done"]
            /\ status' = [status EXCEPT ![r] = 429]
            /\ body' = [body EXCEPT ![r] = "Rate limit exceeded."]

\* runTransaction is over: its snapshots and attempt counter are gone
EndTransaction(r) ==
    /\ attempts' = [attempts EXCEPT ![r] = 0]
    /\ ipDoc' = [ipDoc EXCEPT ![r] = NoDoc]
    /\ globalDoc' = [globalDoc EXCEPT ![r] = NoDoc]

\* A request arrives with client identifier ip; the handler calls
\* checkAndRecordUsage(ip), which runs up to its first await.
Request(r, ip) ==
    /\ pc[r] = "idle"
    /\ \A q \in Calls : q < r => pc[q] # "idle"
    /\ ipAddress' = [ipAddress EXCEPT ![r] = ip]
    /\ IF bypassEnv
       THEN /\ Respond(r, TRUE, "ALLOWED (BYPASS)")
            /\ UNCHANGED <<today, attempts>>
       ELSE IF IsWhitelisted(ip)
       THEN /\ Respond(r, TRUE, "ALLOWED (WHITELIST)")
            /\ UNCHANGED <<today, attempts>>
       ELSE /\ today' = [today EXCEPT ![r] = ISODate(now)]
            /\ IF DocRefOk(IpDocId(ip, ISODate(now)))
               THEN /\ pc' = [pc EXCEPT ![r] = "get_ip"]
                    /\ attempts' = [attempts EXCEPT ![r] = 1]
               ELSE /\ pc' = [pc EXCEPT ![r] = "unhandled"]
                    /\ UNCHANGED attempts
            /\ UNCHANGED <<verdict, status, body>>
    /\ UNCHANGED <<config, now, store, ipDoc, globalDoc, store0, history, resolver>>

\* await transaction.get(ipDocRef)
TxnGetIp(r) ==
    /\ pc[r] = "get_ip"
    /\ ipDoc' = [ipDoc EXCEPT ![r] = ipUsage[IpDocId(ipAddress[r], today[r])]]
    /\ pc' = [pc EXCEPT ![r] = "get_global"]
    /\ UNCHANGED <<config, now, store, ipAddress, today, attempts, globalDoc,
                   verdict, status, body, store0, history, resolver>>

\* await transaction.get(globalDocRef)
TxnGetGlobal(r) ==
    /\ pc[r] = "get_global"
    /\ globalDoc' = [globalDoc EXCEPT ![r] = globalUsage[today[r]]]
    /\ pc' = [pc EXCEPT ![r] = "commit"]
    /\ UNCHANGED <<config, now, store, ipAddress, today, attempts, ipDoc,
                   verdict, status, body, store0, history, resolver>>

\* (variant: the commit does not check what the transaction read)
ReadsCurrent_Unchecked(r) == TRUE

\* the documents the transaction read are as it read them
ReadsCurrent(r) ==
    /\ ipUsage[IpDocId(ipAddress[r], today[r])] = ipDoc[r]
    /\ globalUsage[today[r]] = globalDoc[r]

\* (variant: the global key is built from the clock at commit, not from the
\* period the call computed)
TxnCommit_GlobalKeyNow(r) ==
    /\ pc[r] = "commit"
    /\ ReadsCurrent(r)
    /\ LET out == TransactionBody(ipDoc[r], globalDoc[r])
       IN  /\ ipUsage' = IF out.setIp
                         THEN [ipUsage EXCEPT ![IpDocId(ipAddress[r], today[r])] = out.ipNew]
                         ELSE ipUsage
           /\ globalUsage' = IF out.setGlobal
                             THEN [globalUsage EXCEPT ![ISODate(now)] = out.globalNew]
                             ELSE globalUsage
           /\ Respond(r, out.result, IF out.result THEN "ALLOWED" ELSE "DENIED")
    /\ EndTransaction(r)
    /\ UNCHANGED <<config, now, ipAddress, today, store0, history, resolver>>

\* The update function runs on the snapshots and the transaction commits:
\* the buffered writes are applied together and admit returns the update
\* function's value.
TxnCommit(r) ==
    /\ pc[r] = "commit"
    /\ ReadsCurrent(r)
    /\ LET out == TransactionBody(ipDoc[r], globalDoc[r])
       IN  /\ ipUsage' = IF out.setIp
                         THEN [ipUsage EXCEPT ![IpDocId(ipAddress[r], today[r])] = out.ipNew]
                         ELSE ipUsage
           /\ globalUsage' = IF out.setGlobal
                             THEN [globalUsage EXCEPT ![today[r]] = out.globalNew]
                             ELSE globalUsage
           /\ Respond(r, out.result, IF out.result THEN "ALLOWED" ELSE "DENIED")
    /\ EndTransaction(r)
    /\ UNCHANGED <<config, now, ipAddress, today, store0, history, resolver>>

\* (variant: the writes of the aborted attempt stay in the store)
TxnRetry_KeepsWrites(r) ==
    /\ pc[r] = "commit"
    /\ attempts[r] < MaxAttempts
    /\ LET out == TransactionBody(ipDoc[r], globalDoc[r])
       IN  /\ ipUsage' = IF out.setIp
                         THEN [ipUsage EXCEPT ![IpDocId(ipAddress[r], today[r])] = out.ipNew]
                         ELSE ipUsage
           /\ globalUsage' = IF out.setGlobal
                             THEN [globalUsage EXCEPT ![today[r]] = out.globalNew]
                             ELSE globalUsage
    /\ attempts' = [attempts EXCEPT ![r] = attempts[r] + 1]
    /\ ipDoc' = [ipDoc EXCEPT ![r] = NoDoc]
    /\ globalDoc' = [globalDoc EXCEPT ![r] = NoDoc]
    /\ pc' = [pc EXCEPT ![r] = "get_ip"]
    /\ UNCHANGED <<config, now, ipAddress, today, verdict, status, body, store0, history, resolver>>

\* The store aborts the attempt, because a document it read has changed
\* since or for contention with another transaction: the attempt is rolled
\* back and the update function runs again, ...
TxnRetry(r) ==
    /\ pc[r] = "commit"
    /\ attempts[r] < MaxAttempts
    /\ attempts' = [attempts EXCEPT ![r] = attempts[r] + 1]
    /\ ipDoc' = [ipDoc EXCEPT ![r] = NoDoc]
    /\ globalDoc' = [globalDoc EXCEPT ![r] = NoDoc]
    /\ pc' = [pc EXCEPT ![r] = "get_ip"]
    /\ UNCHANGED <<config, now, store, ipAddress, today, verdict, status, body, store0, history, resolver>>

\* ... or, the attempts used up, runTransaction rejects and the catch block
\* returns false.
TxnExhausted(r) ==
    /\ pc[r] = "commit"
    /\ attempts[r] >= MaxAttempts
    /\ Respond(r, FALSE, "DENIED (ERROR)")
    /\ EndTransaction(r)
    /\ UNCHANGED <<config, now, store, ipAddress, today, store0, history, resolver>>

\* (variant: the catch block lets the request through)
TxnFail_FailOpen(r) ==
    /\ pc[r] \in {"get_ip", "get_global", "commit"}
    /\ Respond(r, TRUE, "DENIED (ERROR)")
    /\ EndTransaction(r)
    /\ UNCHANGED <<config, now, store, ipAddress, today, store0, history, resolver>>

\* The store is unavailable or the transaction times out, at any point of
\* it (an error runTransaction does not retry): it rejects, nothing is
\* written, the catch block returns false.
TxnFail(r) ==
    /\ pc[r] \in {"get_ip", "get_global", "commit"}
    /\ Respond(r, FALSE, "DENIED (ERROR)")
    /\ EndTransaction(r)
    /\ UNCHANGED <<config, now, store, ipAddress, today, store0, history, resolver>>

\* what the handler sends with the status: the provider's reply, or the error
ResponseBody(code) ==
    IF code = 404 THEN "Endpoint not found."
    ELSE IF code = 500 THEN "An internal server error occurred."
    ELSE "(provider reply)"

\* (variant: a request that ends in 404 or 500 gives its quota back)
Dispatch_Refund(r, code) ==
    /\ pc[r] = "dispatch"
    /\ status' = [status EXCEPT ![r] = code]
    /\ body' = [body EXCEPT ![r] = ResponseBody(code)]
    /\ pc' = [pc EXCEPT ![r] = "done"]
    /\ IF code # 200 /\ verdict[r] = "ALLOWED"
       THEN /\ ipUsage' = [ipUsage EXCEPT ![IpDocId(ipAddress[r], today[r])] = Doc(@.count - 1)]
            /\ globalUsage' = [globalUsage EXCEPT ![today[r]] = Doc(@.count - 1)]
       ELSE UNCHANGED store
    /\ UNCHANGED <<config, now, locals, verdict, store0, history, resolver>>

\* Provider dispatch of an admitted request: 200, 404 (no route matches) or
\* 500 (the provider handler throws).
Dispatch(r, code) ==
    /\ pc[r] = "dispatch"
    /\ status' = [status EXCEPT ![r] = code]
    /\ body' = [body EXCEPT ![r] = ResponseBody(code)]
    /\ pc' = [pc EXCEPT ![r] = "done"]
    /\ UNCHANGED <<config, now, store, locals, verdict, store0, history, resolver>>

\* the wall clock passes midnight UTC
Tick ==
    /\ now < LastDay
    /\ now' = now + 1
    /\ UNCHANGED <<config, store, pc, locals, verdict, status, body, store0, history, resolver>>

Next ==
    \/ \E r \in Calls, ip \in ClientIds : Request(r, ip)
    \/ \E r \in Calls : TxnGetIp(r)
    \/ \E r \in Calls : TxnGetGlobal(r)
    \/ \E r \in Calls : TxnCommit(r)
    \/ \E r \in Calls : TxnRetry(r)
    \/ \E r \in Calls : TxnExhausted(r)
    \/ \E r \in Calls : TxnFail(r)
    \/ \E r \in Calls, code \in {200, 404, 500} : Dispatch(r, code)
    \/ Tick

Spec == Init /\ [][Next]_vars

\* a step of request r after its arrival
StepOf(r) ==
    \/ TxnGetIp(r) \/ TxnGetGlobal(r) \/ TxnCommit(r)
    \/ TxnRetry(r) \/ TxnExhausted(r) \/ TxnFail(r)
    \/ \E code \in {200, 404, 500} : Dispatch(r, code)

\* The program under a fair schedule: the store answers every pending get
\* and commit (with a result or an error) and the event loop resumes every
\* request whose await has settled.
SpecFair == Spec /\ \A r \in Calls : WF_vars(StepOf(r))

SpecScaled == InitScaled /\ [][Next]_vars

\* The request is over; the next one of the scenario is served by the same
\* handler, and the history records who was served and whether admitted.
ServeNext(r) ==
    /\ pc[r] = "done"
    /\ history' = Append(history, [client |-> ipAddress[r],
                                   admitted |-> verdict[r] \in {"ALLOWED", "ALLOWED (BYPASS)", "ALLOWED (WHITELIST)"}])
    /\ pc' = [pc EXCEPT ![r] = "idle"]
    /\ ipAddress' = [ipAddress EXCEPT ![r] = EmptyIp]
    /\ today' = [today EXCEPT ![r] = ISODate(0)]
    /\ verdict' = [verdict EXCEPT ![r] = "NONE"]
    /\ status' = [status EXCEPT ![r] = 0]
    /\ body' = [body EXCEPT ![r] = ""]
    /\ UNCHANGED <<config, now, store, attempts, ipDoc, globalDoc, store0, resolver>>

\* sequential requests against a store that answers: one handler at a time
NextScenario ==
    \/ \E ip \in ScenarioClients : Len(history) < Len(Scenario) /\ Request(1, ip)
    \/ TxnGetIp(1)
    \/ TxnGetGlobal(1)
    \/ TxnCommit(1)
    \/ \E code \in {200, 404, 500} : Dispatch(1, code)
    \/ ServeNext(1)

SpecScenario == InitScenario /\ [][NextScenario]_vars

\* apiProxy resolves the identity of the request, in both files
Resolve ==
    /\ ~resolved.done
    /\ resolved' = [done |-> TRUE,
                    ts |-> ResolveTs(reqIp, forwardedFor),
                    js |-> ResolveJs(reqIp, forwardedFor)]
    /\ UNCHANGED <<config, now, store, pc, locals, verdict, status, body, store0,
                   history, reqIp, forwardedFor>>

NextResolve == Resolve

SpecResolve == InitResolve /\ [][NextResolve]_vars

(***************************************************************************)
(* Vocabulary of the properties.                                           *)
(***************************************************************************)
AllowedVerdicts == {"ALLOWED", "ALLOWED (BYPASS)", "ALLOWED (WHITELIST)"}
DeniedVerdicts == {"DENIED", "DENIED (ERROR)"}

\* the count a document stores (0 for a missing document)
IpCount(ip, date) == ipUsage[IpDocId(ip, date)].count
GlobalCount(date) == globalUsage[date].count
IpCount0(ip, date) == store0[1][IpDocId(ip, date)].count
GlobalCount0(date) == store0[2][date].count

\* clients whose counter key the store accepts
KeyedClients == {c \in ClientIds : DocRefOk(IpDocId(c, ISODate(0)))}
Dates == {ISODate(d) : d \in Days}

\* request r's admit call returns in this step / returns true in this step
Returns(r) == verdict[r] = "NONE" /\ verdict'[r] # "NONE"
ReturnsTrue(r) == verdict[r] = "NONE" /\ verdict'[r] \in AllowedVerdicts
ReturnsFalse(r) == verdict[r] = "NONE" /\ verdict'[r] \in DeniedVerdicts

\* the period request r's admit call is evaluated under
AdmitPeriod(r) == IF pc[r] = "idle" THEN ISODate(now) ELSE today[r]

\* the requests of client ip whose admit call ended with a verdict of vs
CallsWith(ip, date, vs) ==
    {r \in Calls : /\ pc[r] # "idle"
                   /\ ipAddress[r] = ip
                   /\ today[r] = date
                   /\ verdict[r] \in vs}

\* every request is for client ip in period date, and its admit call returned
AllReturnedFor(ip, date) ==
    \A r \in Calls : /\ pc[r] \in {"dispatch", "done"}
                     /\ ipAddress[r] = ip
                     /\ today[r] = date

\* this step adds one to both counters of request r's client and period and
\* changes no other document
BothIncremented(r) ==
    /\ ipUsage' = [ipUsage EXCEPT ![IpDocId(ipAddress[r], today[r])] = Doc(@.count + 1)]
    /\ globalUsage' = [globalUsage EXCEPT ![today[r]] = Doc(@.count + 1)]

(***************************************************************************)
(* C1. In every reachable state no per-client counter of any period        *)
(* exceeds the per-client limit and no global counter of any period        *)
(* exceeds the global limit, whatever the interleaving of the admit calls. *)
(***************************************************************************)
C1_LimitsNeverExceeded ==
    /\ \A k \in IpDocIds : ipUsage[k].count <= ipLimit
    /\ \A g \in GlobalDocIds : globalUsage[g].count <= globalLimit

\* an admit brought a client and the global counter to their limits, and a
\* second call of the same client and period was denied
C1_Witness ==
    \E r1, r2 \in Calls :
        /\ r1 # r2
        /\ ipAddress[r1] = ipAddress[r2] /\ today[r1] = today[r2]
        /\ verdict[r1] = "ALLOWED" /\ verdict[r2] = "DENIED"
        /\ IpCount(ipAddress[r1], today[r1]) = ipLimit
        /\ IpCount0(ipAddress[r1], today[r1]) = ipLimit - 1
        /\ GlobalCount(today[r1]) = globalLimit
        /\ GlobalCount0(today[r1]) = globalLimit - 1

C3_NeverPartiallyAdmitted ==
    [][ /\ \A r \in Calls :
              (verdict[r] = "NONE" /\ verdict'[r] = "ALLOWED") => BothIncremented(r)
        /\ store' # store =>
              \E r \in Calls : verdict[r] = "NONE" /\ verdict'[r] = "ALLOWED"
      ]_vars

\* one call was admitted, both counters one up, while another call of the
\* same client and period failed inside its transaction
C3_Witness ==
    \E r1, r2 \in Calls :
        /\ verdict[r1] = "ALLOWED" /\ verdict[r2] = "DENIED (ERROR)"
        /\ ipAddress[r1] = ipAddress[r2] /\ today[r1] = today[r2]
        /\ IpCount(ipAddress[r1], today[r1]) = IpCount0(ipAddress[r1], today[r1]) + 1
        /\ GlobalCount(today[r1]) = GlobalCount0(today[r1]) + 1

(***************************************************************************)
(* C4. A denied admit call never mutates a counter: in the step in which   *)
(* an admit call returns false, every document of the store is unchanged.  *)
(***************************************************************************)
C4_DenialLeavesStore ==
    [][ \A r \in Calls : ReturnsFalse(r) => store' = store ]_vars

\* a call was denied for the global limit although its client had no use
C4_Witness ==
    \E r \in Calls :
        /\ verdict[r] = "DENIED" /\ status[r] = 429
        /\ IpCount(ipAddress[r], today[r]) = 0
        /\ GlobalCount(today[r]) >= globalLimit
        /\ store = store0

(***************************************************************************)
(* C5. The system fails closed: in the step in which a transaction fails   *)
(* (the catch block logs DENIED (ERROR)), admit returns false, the store   *)
(* is unchanged and the request ends at once with status 429, as a quota   *)
(* denial does, without starting another transaction.                      *)
(***************************************************************************)
C5_FailsClosed ==
    [][ \A r \in Calls :
          /\ (verdict[r] = "NONE" /\ verdict'[r] = "DENIED (ERROR)") =>
                /\ store' = store
                /\ pc'[r] = "done" /\ status'[r] = 429
                /\ attempts'[r] = 0
          /\ ReturnsFalse(r) => status'[r] = 429
      ]_vars

\* a transaction that had read counts below both limits failed, and the
\* request got 429
C5_Witness ==
    \E r \in Calls :
        /\ verdict[r] = "DENIED (ERROR)" /\ status[r] = 429 /\ pc[r] = "done"
        /\ IpCount(ipAddress[r], today[r]) < ipLimit
        /\ GlobalCount(today[r]) < globalLimit
        /\ store = store0

(***************************************************************************)
(* C6 as stated. No admit call propagates an unhandled fault to the        *)
(* request handler: no request is ever left with a rejected                *)
(* checkAndRecordUsage.                                                    *)
(***************************************************************************)
C6_NoUnhandledFault == \A r \in Calls : pc[r] # "unhandled"

(***************************************************************************)
(* C7. A request of an allow-listed client is admitted at once, whatever   *)
(* the counters, the bypass flag and the store: its admit call returns     *)
(* true without starting a transaction (no read), and no step of such a    *)
(* request changes the store (no write).                                   *)
(***************************************************************************)
C7_AllowListed ==
    [][ \A r \in Calls :
          (pc'[r] # "idle" /\ ipAddress'[r] \in WHITELISTED_IPS) =>
              /\ pc'[r] \in {"dispatch", "done"}
              /\ verdict'[r] \in {"ALLOWED (WHITELIST)", "ALLOWED (BYPASS)"}
              /\ attempts'[r] = 0 /\ ipDoc'[r] = NoDoc /\ globalDoc'[r] = NoDoc
              /\ status'[r] # 429
              /\ pc'[r] # pc[r] => store' = store
      ]_vars

\* an allow-listed client whose counter stands at the limit was admitted
\* through the allow-list and the store is as it was
C7_Witness ==
    \E r \in Calls :
        /\ ipAddress[r] \in WHITELISTED_IPS
        /\ verdict[r] = "ALLOWED (WHITELIST)"
        /\ pc[r] = "done"
        /\ IpCount(ipAddress[r], ISODate(0)) >= ipLimit
        /\ store = store0

(***************************************************************************)
(* C8 as stated. Whatever the allow-list, with the bypass flag off a       *)
(* request with the empty client identifier is never admitted through the  *)
(* allow-list: it goes through the quota transaction.                      *)
(***************************************************************************)
C8_EmptyIdUnprivileged ==
    \A r \in Calls :
        (pc[r] # "idle" /\ ipAddress[r] = EmptyIp /\ ~bypassEnv) =>
            verdict[r] # "ALLOWED (WHITELIST)"

C10_CounterIsAdmits ==
    now = 0 =>
        \A ip \in KeyedClients \ WHITELISTED_IPS :
            IpCount(ip, ISODate(0)) =
                IpCount0(ip, ISODate(0))
                + Cardinality({r \in Calls : /\ pc[r] # "idle"
                                             /\ ipAddress[r] = ip
                                             /\ verdict[r] \in AllowedVerdicts})

\* the per-client counters have risen by the admit calls that returned true
CounterIsAdmits ==
    ~bypassEnv =>
        \A ip \in KeyedClients \ WHITELISTED_IPS : \A date \in Dates :
            IpCount(ip, date) =
                IpCount0(ip, date) + Cardinality(CallsWith(ip, date, AllowedVerdicts))

\* a call that returns with its counter at the limit is denied, no write
DeniedAtLimit ==
    \A r \in Calls :
        ( /\ ~bypassEnv
          /\ Returns(r)
          /\ ipAddress'[r] \in KeyedClients \ WHITELISTED_IPS
          /\ IpCount(ipAddress'[r], AdmitPeriod(r)) >= ipLimit )
        => /\ verdict'[r] \in DeniedVerdicts
           /\ ipUsage' = ipUsage

(***************************************************************************)
(* C10 amended. With the bypass flag off: the per-client counter of a      *)
(* non-allow-listed client and period has risen by the number of the       *)
(* client's admit calls of that period that returned true; and an admit    *)
(* call that returns while its counter is at the per-client limit returns  *)
(* false and leaves the counter as it is.                                  *)
(***************************************************************************)
C10_CounterIsAdmitsUnlessBypass == []CounterIsAdmits /\ [][DeniedAtLimit]_vars

\* a client one below its limit was admitted once, its next call was
\* denied, and the counter stands at the limit with the global one below
C10_Witness ==
    \E r1, r2 \in Calls :
        /\ r1 # r2 /\ ~bypassEnv
        /\ ipAddress[r1] = ipAddress[r2] /\ today[r1] = today[r2]
        /\ verdict[r1] = "ALLOWED" /\ verdict[r2] = "DENIED"
        /\ IpCount(ipAddress[r1], today[r1]) = ipLimit
        /\ IpCount0(ipAddress[r1], today[r1]) = ipLimit - 1
        /\ GlobalCount(today[r1]) < globalLimit

(***************************************************************************)
(* C11. Period rollover.  Counters written under one period never affect   *)
(* a decision taken under a later period: a call evaluated in a period     *)
(* that began with no counters is denied for quota only when the calls     *)
(* admitted in that same period have used up its client's limit or the     *)
(* global limit, whatever the counters of the period before hold, and a    *)
(* step changes a counter of a period only when it is the admission of a   *)
(* call evaluated in that period.                                          *)
(***************************************************************************)
AdmittedIn(date) == {q \in Calls : today[q] = date /\ verdict[q] = "ALLOWED"}

C11_FreshPeriod ==
    \A r \in Calls :
        (verdict[r] = "DENIED" /\ today[r] # DateTable[1])
            => \/ Cardinality({q \in AdmittedIn(today[r]) : ipAddress[q] = ipAddress[r]}) >= ipLimit
               \/ Cardinality(AdmittedIn(today[r])) >= globalLimit

C11_OtherPeriodsKept ==
    \A d \in Days :
        (\/ globalUsage'[DateTable[d + 1]] # globalUsage[DateTable[d + 1]]
         \/ \E c \in KeyedClients :
                ipUsage'[IpDocId(c, DateTable[d + 1])] # ipUsage[IpDocId(c, DateTable[d + 1])])
            => \E r \in Calls : ReturnsTrue(r) /\ today[r] = DateTable[d + 1]

C11_PeriodRollover == []C11_FreshPeriod /\ [][C11_OtherPeriodsKept]_vars

\* a client and the global counter are at their limits in the first period,
\* and a call of that client evaluated in the next period was admitted and
\* counted from zero
C11_Witness ==
    \E c \in KeyedClients, r \in Calls :
        /\ IpCount(c, DateTable[1]) = ipLimit
        /\ globalUsage[DateTable[1]].count = globalLimit
        /\ ipAddress[r] = c /\ today[r] = DateTable[2] /\ verdict[r] = "ALLOWED"
        /\ IpCount(c, DateTable[2]) = 1
        /\ globalUsage[DateTable[2]] = Doc(1)

(***************************************************************************)
(* C12. With the bypass flag on, every admit call returns true at once,    *)
(* for every client, and the store is neither read nor written; with the   *)
(* flag off, every call of a client that is not allow-listed goes through  *)
(* the quota transaction: it is in its transaction or has returned the     *)
(* outcome of one.                                                         *)
(***************************************************************************)
C12_BypassIsTheOnlyShortcut ==
    \A r \in Calls :
        pc[r] # "idle" =>
            IF bypassEnv
            THEN /\ verdict[r] = "ALLOWED (BYPASS)"
                 /\ attempts[r] = 0 /\ ipDoc[r] = NoDoc /\ globalDoc[r] = NoDoc
                 /\ store = store0
            ELSE ipAddress[r] \notin WHITELISTED_IPS
                    => \/ pc[r] \in {"get_ip", "get_global", "commit"}
                       \/ verdict[r] \in {"ALLOWED", "DENIED", "DENIED (ERROR)"}

(***************************************************************************)
(* C13. Under the automatic retry of the transaction body a single admit   *)
(* call increments each counter at most once: the store changes only in    *)
(* the step in which a call returns true from its transaction, and then    *)
(* by one on both of its counters; a step that starts another attempt      *)
(* leaves the store as it is; a call returns once; so the global counter   *)
(* of a period has risen by exactly the number of calls of that period     *)
(* that returned true from a transaction, however often they were retried. *)
(***************************************************************************)
C13_StepsOfOneCall ==
    /\ store' # store
          => \E r \in Calls : /\ verdict[r] = "NONE" /\ verdict'[r] = "ALLOWED"
                              /\ BothIncremented(r)
    /\ \A r \in Calls : attempts'[r] > attempts[r] => store' = store
    /\ \A r \in Calls : verdict[r] # "NONE" => verdict'[r] = verdict[r]

C13_NoDoubleCount ==
    \A date \in Dates :
        GlobalCount(date) = GlobalCount0(date) + Cardinality(AdmittedIn(date))

C13_AtMostOneIncrement == []C13_NoDoubleCount /\ [][C13_StepsOfOneCall]_vars

\* a call is in a retried attempt, about to commit on what it read again,
\* after another call of the same client and period was admitted: the
\* counters stand one above their initial values
C13_Witness ==
    \E r, q \in Calls :
        /\ r # q
        /\ attempts[r] >= 2 /\ pc[r] = "commit"
        /\ verdict[q] = "ALLOWED"
        /\ ipAddress[q] = ipAddress[r] /\ today[q] = today[r]
        /\ ipDoc[r] = ipUsage[IpDocId(ipAddress[r], today[r])]
        /\ globalDoc[r] = globalUsage[today[r]]
        /\ IpCount(ipAddress[r], today[r]) = IpCount0(ipAddress[r], today[r]) + 1
        /\ GlobalCount(today[r]) = GlobalCount0(today[r]) + 1

(***************************************************************************)
(* C14. Every admit call eventually returns a decision: once a request     *)
(* has arrived, its admit call comes to return true or false.              *)
(***************************************************************************)
C14_EveryCallReturns ==
    \A r \in Calls : (pc[r] # "idle") ~> (verdict[r] # "NONE")

\* the part of C14 about the transaction: a call that has entered its
\* transaction comes to return, the attempts being bounded and their
\* exhaustion and every store error being turned into a denial
C14_TransactionsEnd ==
    \A r \in Calls : (pc[r] \in {"get_ip", "get_global", "commit"}) ~> (verdict[r] # "NONE")

(***************************************************************************)
(* C15. End-to-end scenario, limits 2 and 3, empty allow-list, bypass      *)
(* off, one period, calls one after the other: A and A are admitted        *)
(* (A = 2, global = 2); a third A is denied with the counters unchanged;   *)
(* B is admitted (B = 1, global = 3); C is denied (C = 0, global = 3).     *)
(* Stated for every prefix of the scenario: whenever the requests served   *)
(* so far are the first n of A, A, A, B, C, their outcomes and the         *)
(* counters are the ones the scenario lists for n calls.                   *)
(***************************************************************************)
ScenarioAdmitted == <<TRUE, TRUE, FALSE, TRUE, FALSE>>
ScenarioCounts ==
    << [a |-> 1, b |-> 0, c |-> 0, g |-> 1],
       [a |-> 2, b |-> 0, c |-> 0, g |-> 2],
       [a |-> 2, b |-> 0, c |-> 0, g |-> 2],
       [a |-> 2, b |-> 1, c |-> 0, g |-> 3],
       [a |-> 2, b |-> 1, c |-> 0, g |-> 3] >>

ScenarioSoFar ==
    /\ pc[1] = "idle"
    /\ Len(history) <= Len(Scenario)
    /\ \A i \in 1..Len(history) : history[i].client = Scenario[i]

CountsAre(e) ==
    /\ ipUsage[<<"a", "_", DateTable[1]>>].count = e.a
    /\ ipUsage[<<"w", "_", DateTable[1]>>].count = e.b
    /\ ipUsage[<<"_", DateTable[1]>>].count = e.c
    /\ globalUsage[DateTable[1]].count = e.g

C15_Scenario ==
    (ScenarioSoFar /\ Len(history) > 0)
        => /\ \A i \in 1..Len(history) : history[i].admitted = ScenarioAdmitted[i]
           /\ CountsAre(ScenarioCounts[Len(history)])

\* the whole scenario has been served
C15_Witness ==
    /\ ScenarioSoFar
    /\ Len(history) = Len(Scenario)
    /\ history[3].admitted = FALSE /\ history[4].admitted = TRUE
    /\ CountsAre([a |-> 2, b |-> 1, c |-> 0, g |-> 3])

(***************************************************************************)
(* C16. Identity resolution.  For every peer address and forwarded header  *)
(* the identifier handed to admit is the first comma-separated entry of    *)
(* the header with the surrounding whitespace removed, when the header is  *)
(* present and non-empty; otherwise the peer address; otherwise it is      *)
(* empty.  Resolution never fails: it is enabled for every input.  The     *)
(* identifier is described by what it is, not by how the code finds it.    *)
(***************************************************************************)
AllSpaces(s) == \A i \in 1..Len(s) : s[i] = " "

\* e is the part of h before its first comma (all of h when it has none)
IsFirstEntry(e, h) ==
    /\ Len(e) <= Len(h)
    /\ \A i \in 1..Len(e) : e[i] = h[i] /\ e[i] # ","
    /\ Len(e) = Len(h) \/ h[Len(e) + 1] = ","

\* t is e without the whitespace around it
IsTrimOf(t, e) ==
    /\ t # << >> => (t[1] # " " /\ t[Len(t)] # " ")
    /\ \E i \in 0..Len(e) :
          /\ i + Len(t) <= Len(e)
          /\ \A k \in 1..Len(t) : e[i + k] = t[k]
          /\ \A k \in 1..i : e[k] = " "
          /\ \A k \in (i + Len(t) + 1)..Len(e) : e[k] = " "

\* id is the identifier C16 describes for the request at hand
IsIdentityOf(id) ==
    IF forwardedFor.present /\ forwardedFor.value # << >>
    THEN \E n \in 0..Len(forwardedFor.value) :
            /\ IsFirstEntry(SubSeq(forwardedFor.value, 1, n), forwardedFor.value)
            /\ IsTrimOf(id, SubSeq(forwardedFor.value, 1, n))
    ELSE IF reqIp.present THEN id = reqIp.value
    ELSE id = << >>

C17_DispatchAfterAdmission ==
    \A r \in Calls :
        /\ (pc[r] = "dispatch" \/ status[r] \in {200, 404, 500})
              => /\ verdict[r] \in AllowedVerdicts
                 /\ verdict[r] = "ALLOWED"
                       => /\ IpCount(ipAddress[r], today[r])
                               >= IpCount0(ipAddress[r], today[r])
                                  + Cardinality({q \in AdmittedIn(today[r]) : ipAddress[q] = ipAddress[r]})
                          /\ GlobalCount(today[r])
                               >= GlobalCount0(today[r]) + Cardinality(AdmittedIn(today[r]))
        /\ verdict[r] \in DeniedVerdicts
              => /\ status[r] = 429
                 /\ body[r] = "Rate limit exceeded."
                 /\ pc[r] = "done"

C17_OneResponse ==
    \A r \in Calls :
        status[r] # 0 => /\ status'[r] = status[r]
                         /\ body'[r] = body[r]
                         /\ pc'[r] = pc[r]

C17_HandlerOrdering == []C17_DispatchAfterAdmission /\ [][C17_OneResponse]_vars

\* one request was denied for quota and answered 429, another was admitted
\* on the quota path and answered by its provider
C17_Witness ==
    \E r, q \in Calls :
        /\ verdict[r] = "DENIED" /\ status[r] = 429
        /\ body[r] = "Rate limit exceeded." /\ pc[r] = "done"
        /\ verdict[q] = "ALLOWED" /\ status[q] = 200 /\ pc[q] = "done"
        /\ GlobalCount(today[q]) > GlobalCount0(today[q])

(***************************************************************************)
(* C18. Accounting.  For every period the global counter equals the sum    *)
(* of the per-client counters of that period, in a store that only admit   *)
(* changes: what admit has added to the global counter of a period is the  *)
(* sum of what it has added to that period's per-client counters, so that  *)
(* from an empty store the two are equal; also when the clock passes       *)
(* midnight between or during calls.                                       *)
(***************************************************************************)
RECURSIVE SumOfAdded(_, _)
SumOfAdded(clients, date) ==
    IF clients = {} THEN 0
    ELSE LET c == CHOOSE x \in clients : TRUE
         IN  (ipUsage[IpDocId(c, date)].count - store0[1][IpDocId(c, date)].count)
             + SumOfAdded(clients \ {c}, date)

C18_GlobalIsSumOfClients ==
    \A date \in Dates :
        globalUsage[date].count - store0[2][date].count = SumOfAdded(KeyedClients, date)

\* from an empty store, a call evaluated before midnight and a call of
\* another client evaluated after it were both admitted: each period holds
\* one per-client count of one and a global count of one
C18_Witness ==
    \E r, q \in Calls :
        /\ \A date \in Dates : store0[2][date].count = 0
        /\ now = 1
        /\ verdict[r] = "ALLOWED" /\ today[r] = DateTable[1]
        /\ verdict[q] = "ALLOWED" /\ today[q] = DateTable[2]
        /\ ipAddress[r] # ipAddress[q]
        /\ globalUsage[DateTable[1]].count = 1 /\ IpCount(ipAddress[r], DateTable[1]) = 1
        /\ globalUsage[DateTable[2]].count = 1 /\ IpCount(ipAddress[q], DateTable[2]) = 1

(***************************************************************************)
(* C19. No refund.  No step lowers or removes a counter; the step in       *)
(* which an admitted request gets its response, 404 and 500 included,      *)
(* leaves the store as it is; so a request admitted on the quota path      *)
(* that ended in 404 or 500 still has its increment in both counters.      *)
(***************************************************************************)
C19_NoStepLowers ==
    /\ \A k \in IpDocIds :
          /\ ipUsage'[k].count >= ipUsage[k].count
          /\ ipUsage[k].exists => ipUsage'[k].exists
    /\ \A g \in GlobalDocIds :
          /\ globalUsage'[g].count >= globalUsage[g].count
          /\ globalUsage[g].exists => globalUsage'[g].exists
    /\ \A r \in Calls :
          (pc[r] = "dispatch" /\ pc'[r] = "done") => store' = store

C19_FailedRequestsStayCounted ==
    \A date \in Dates :
        globalUsage[date].count >=
            store0[2][date].count
            + Cardinality({r \in Calls : /\ today[r] = date
                                         /\ verdict[r] = "ALLOWED"
                                         /\ status[r] \in {404, 500}})

C19_NoRefund == []C19_FailedRequestsStayCounted /\ [][C19_NoStepLowers]_vars

\* a request admitted on the quota path ended in 500 and both its counters
\* stand one above their initial values
C19_Witness ==
    \E r \in Calls :
        /\ verdict[r] = "ALLOWED" /\ status[r] = 500 /\ pc[r] = "done"
        /\ IpCount(ipAddress[r], today[r]) = IpCount0(ipAddress[r], today[r]) + 1
        /\ GlobalCount(today[r]) = GlobalCount0(today[r]) + 1

(***************************************************************************)
(* C20. index.js and index.ts are equivalent: for every peer address       *)
(* (absent included), forwarded header, allow-list and bypass flag the     *)
(* two take the same shortcut or none, and on the quota path they read     *)
(* and write the same per-client counter key in every period.              *)
(***************************************************************************)
C20_SameDecisionAndKeys ==
    (resolved.done /\ ~bypassEnv)
        => /\ (resolved.ts \in WHITELISTED_IPS) <=> IncludesJs(resolved.js)
           /\ \A date \in Dates :
                 IpDocId(resolved.ts, date) = IpDocId(ToStringJs(resolved.js), date)

====
